---- MODULE Spec2Model ----
(***************************************************************************)
(* Model of DCF.py: the discounted-cash-flow valuation function            *)
(* dcf_valuation and the module-level script that fetches market data,     *)
(* reads the sidebar inputs, calls dcf_valuation and writes the results.   *)
(*                                                                         *)
(* A Python float is modelled by the rational <<n, d>> (lowest terms,       *)
(* d > 0) it stands for, together with a flag saying whether the double    *)
(* IS that rational (exact) or only the double arithmetic's rounding of    *)
(* it.  An operation on exact operands whose true result is a dyadic       *)
(* rational is exact in IEEE-754 arithmetic; any other result is rounded.  *)
(* Tests on a rounded value agree with the tests on its rational except    *)
(* where the rational test is an equality (a total of exactly zero): there *)
(* the double may fall on either side, and the model allows both.          *)
(* None and a raised exception are records of the same shape.              *)
(***************************************************************************)
EXTENDS Integers, Sequences, FiniteSets

\* ------------------------------------------------------------------------
\* Bounds of the model (not program constants)
\* ------------------------------------------------------------------------
MaxLen == 3
MaxYears == 3
MaxSliderYears == 4

\* ------------------------------------------------------------------------
\* Rational arithmetic: the real-number values of the floats
\* ------------------------------------------------------------------------
Abs(x) == IF x < 0 THEN -x ELSE x

RECURSIVE GCD(_, _)
GCD(a, b) == IF b = 0 THEN a ELSE GCD(b, a % b)

Norm(n, d) ==
    LET g == GCD(Abs(n), Abs(d))
        s == IF d < 0 THEN -1 ELSE 1
    IN  <<s * (n \div g), s * (d \div g)>>

R(n) == <<n, 1>>

IsZero(x) == x[1] = 0

RNeg(x) == <<-x[1], x[2]>>

\* x + y over the least common denominator
RAdd(x, y) ==
    LET g == GCD(x[2], y[2])
    IN  Norm(x[1] * (y[2] \div g) + y[1] * (x[2] \div g), (x[2] \div g) * y[2])

RSub(x, y) == RAdd(x, RNeg(y))

\* x * y, cancelling across before multiplying
RMul(x, y) ==
    LET g1 == GCD(Abs(x[1]), y[2])
        g2 == GCD(Abs(y[1]), x[2])
        a == IF g1 = 0 THEN 1 ELSE g1
        b == IF g2 = 0 THEN 1 ELSE g2
    IN  Norm((x[1] \div a) * (y[1] \div b), (x[2] \div b) * (y[2] \div a))

\* x / y, for y # 0 (the callers raise ZeroDivisionError before using it)
RDiv(x, y) == RMul(x, Norm(y[2], y[1]))

\* a/b < c/d for 0 <= a < b and 0 <= c < d, by comparing the whole parts of
\* the reciprocals (no product is formed, so no intermediate can overflow)
RECURSIVE FracLt(_, _, _, _)
FracLt(a, b, c, d) ==
    IF c = 0 THEN FALSE
    ELSE IF a = 0 THEN TRUE
    ELSE IF (d \div c) # (b \div a) THEN (d \div c) < (b \div a)
    ELSE FracLt(d % c, c, b % a, a)

RLt(x, y) ==
    IF (x[1] \div x[2]) # (y[1] \div y[2])
    THEN (x[1] \div x[2]) < (y[1] \div y[2])
    ELSE FracLt(x[1] % x[2], x[2], y[1] % y[2], y[2])

RLe(x, y) == x = y \/ RLt(x, y)

RECURSIVE RPow(_, _)
RPow(x, i) == IF i = 0 THEN R(1) ELSE RMul(x, RPow(x, i - 1))

RECURSIVE RSum(_)
RSum(s) == IF s = <<>> THEN R(0) ELSE RAdd(Head(s), RSum(Tail(s)))

Min(a, b) == IF a < b THEN a ELSE b

\* ------------------------------------------------------------------------
\* Python values: a float, None, or "not yet assigned"
\* ------------------------------------------------------------------------
RECURSIVE IsPowerOfTwo(_)
IsPowerOfTwo(d) == d = 1 \/ (d > 1 /\ d % 2 = 0 /\ IsPowerOfTwo(d \div 2))

\* a rational a double can hold exactly (within the model's magnitudes)
Dyadic(x) == IsPowerOfTwo(x[2])

None == [kind |-> "None", val |-> R(0), exact |-> TRUE]
Unset == [kind |-> "unset", val |-> R(0), exact |-> TRUE]
ZeroDivisionError == [kind |-> "ZeroDivisionError", val |-> R(0), exact |-> TRUE]

\* the float written x: x itself when a double can hold it, else the nearest double
Num(x) == [kind |-> "num", val |-> x, exact |-> Dyadic(x)]
IsNum(v) == v.kind = "num"

\* the float result of an operation whose real-number result is v
Rounded(v, operandsExact) ==
    [kind |-> "num", val |-> v, exact |-> operandsExact /\ Dyadic(v)]

\* 0.0: adding it leaves the other operand as it is, and a product or
\* quotient with it as a factor or numerator is 0.0 without rounding
IsExactZero(x) == x.exact /\ IsZero(x.val)

FAdd(x, y) ==
    IF IsExactZero(x) THEN y
    ELSE IF IsExactZero(y) THEN x
    ELSE Rounded(RAdd(x.val, y.val), x.exact /\ y.exact)
FSub(x, y) ==
    IF IsExactZero(y) THEN x
    ELSE Rounded(RSub(x.val, y.val), x.exact /\ y.exact)
FMul(x, y) ==
    IF IsExactZero(x) \/ IsExactZero(y) THEN Num(R(0))
    ELSE Rounded(RMul(x.val, y.val), x.exact /\ y.exact)
\* for y # 0.0 (the callers raise ZeroDivisionError before using it)
FDiv(x, y) ==
    IF IsExactZero(x) THEN Num(R(0))
    ELSE Rounded(RDiv(x.val, y.val), x.exact /\ y.exact)

\* x ** i for an int i >= 0
RECURSIVE FPow(_, _)
FPow(x, i) == IF i = 0 THEN Num(R(1)) ELSE FMul(x, FPow(x, i - 1))

\* sum(s): from 0, left to right
RECURSIVE FSum(_)
FSum(s) ==
    IF s = <<>> THEN Num(R(0))
    ELSE FAdd(FSum(SubSeq(s, 1, Len(s) - 1)), s[Len(s)])

\* x == 0.0, for a sum or difference of two arguments (1 + r, r - g): it is
\* zero exactly when its rational is
FIsZero(x) == IsZero(x.val)

\* x < y and x <= y between arguments and fetched values
FLt(x, y) == RLt(x.val, y.val)
FLe(x, y) == RLe(x.val, y.val)

\* Python truthiness of a float-or-None value: None and 0.0 are falsy.  A
\* rounded value whose rational is zero may be 0.0 or a tiny non-zero double.
TruthValues(v) ==
    IF ~IsNum(v) THEN {FALSE}
    ELSE IF ~IsZero(v.val) THEN {TRUE}
    ELSE IF v.exact THEN {FALSE}
    ELSE BOOLEAN

\* ------------------------------------------------------------------------
\* dcf_valuation, line by line
\* ------------------------------------------------------------------------
\* the guard with < in place of <=
RejectsRatesStrict(discount_rate, terminal_growth) == FLt(discount_rate, terminal_growth)

\* line 7: if discount_rate <= terminal_growth
RejectsRates(discount_rate, terminal_growth) == FLe(discount_rate, terminal_growth)

\* line 11: 1 / (1 + discount_rate) raises ZeroDivisionError when 1 + r = 0.0
FactorsRaise(discount_rate, years) ==
    years >= 1 /\ FIsZero(FAdd(Num(R(1)), discount_rate))

\* line 11: [(1 / (1 + discount_rate)) ** i for i in range(1, years + 1)]
DiscountFactors(discount_rate, years) ==
    [i \in 1..years |-> FPow(FDiv(Num(R(1)), FAdd(Num(R(1)), discount_rate)), i)]

\* line 12: [cf * df for cf, df in zip(cash_flows, discount_factors)]
PresentValues(cash_flows, dfs) ==
    [i \in 1..Min(Len(cash_flows), Len(dfs)) |-> FMul(cash_flows[i], dfs[i])]

\* line 13: division by (discount_rate - terminal_growth)
TerminalRaises(discount_rate, terminal_growth) ==
    FIsZero(FSub(discount_rate, terminal_growth))

\* the terminal value without the year of growth, cash_flows[-1] / (r - g)
TerminalValueNoGrowth(cash_flows, discount_rate, terminal_growth) ==
    FDiv(cash_flows[Len(cash_flows)], FSub(discount_rate, terminal_growth))

\* line 13: (cash_flows[-1] * (1 + terminal_growth)) / (discount_rate - terminal_growth)
TerminalValue(cash_flows, discount_rate, terminal_growth) ==
    FDiv(FMul(cash_flows[Len(cash_flows)], FAdd(Num(R(1)), terminal_growth)),
         FSub(discount_rate, terminal_growth))

\* line 14: terminal_value * discount_factors[-1]
TerminalValuePV(tv, dfs) == FMul(tv, dfs[Len(dfs)])

\* line 16: sum(present_values) + terminal_value_pv
TotalValue(pvs, tvpv) == FAdd(FSum(pvs), tvpv)

\* What one call returns: None, a float, or a raised ZeroDivisionError.
\* Defined for Len(cash_flows) >= 1 and years >= 1.
dcf_valuation(cash_flows, discount_rate, terminal_growth, years) ==
    IF RejectsRates(discount_rate, terminal_growth) THEN None
    ELSE IF FactorsRaise(discount_rate, years)
              \/ TerminalRaises(discount_rate, terminal_growth)
         THEN ZeroDivisionError
    ELSE LET dfs == DiscountFactors(discount_rate, years)
             pvs == PresentValues(cash_flows, dfs)
             tv == TerminalValue(cash_flows, discount_rate, terminal_growth)
         IN  TotalValue(pvs, TerminalValuePV(tv, dfs))

\* ------------------------------------------------------------------------
\* Ticker text: .upper() and .endswith(".JK"), on sequences of characters
\* ------------------------------------------------------------------------
LowerCase == << "a", "b", "c", "d", "e", "f", "g", "h", "i", "j", "k", "l", "m",
                "n", "o", "p", "q", "r", "s", "t", "u", "v", "w", "x", "y", "z" >>
UpperCase == << "A", "B", "C", "D", "E", "F", "G", "H", "I", "J", "K", "L", "M",
                "N", "O", "P", "Q", "R", "S", "T", "U", "V", "W", "X", "Y", "Z" >>

\* str.upper() on one ASCII character: a letter is capitalised, anything
\* else (upper-case letters, digits, ".", "=") is kept
UpperChar(c) ==
    IF \E i \in 1..Len(LowerCase) : LowerCase[i] = c
    THEN UpperCase[CHOOSE i \in 1..Len(LowerCase) : LowerCase[i] = c]
    ELSE c

Upper(t) == [i \in 1..Len(t) |-> UpperChar(t[i])]

EndsWith(t, suffix) ==
    /\ Len(t) >= Len(suffix)
    /\ SubSeq(t, Len(t) - Len(suffix) + 1, Len(t)) = suffix

DotJK == <<".", "J", "K">>

\* ------------------------------------------------------------------------
\* Inputs the model draws from
\* ------------------------------------------------------------------------
\* rates handed to dcf_valuation directly (fractions; -1 is -100%)
Rates == {Num(R(-3)), Num(R(-2)), Num(R(-1)), Num(<<-1, 2>>), Num(R(0)),
          Num(<<1, 2>>), Num(R(1))}

CashFlowValues == {Num(R(-1)), Num(R(1)), Num(R(2))}

CashFlowSeqs == UNION {[1..n -> CashFlowValues] : n \in 1..MaxLen}

\* the worked example: 105, 110.25, 115.76, 121.55, 127.63 at 10% and 2%, 5 years
ExampleCashFlows ==
    <<Num(R(105)), Num(<<441, 4>>), Num(<<2894, 25>>), Num(<<2431, 20>>),
      Num(<<12763, 100>>)>>
ExampleDiscountRate == Num(<<1, 10>>)
ExampleTerminalGrowth == Num(<<1, 50>>)
ExampleYears == Len(ExampleCashFlows)

\* text typed into the ticker field
Tickers == { <<"A", "A", "P", "L">>,
             <<"m", "s", "f", "t">>,
             <<"b", "b", "r", "i", ".", "j", "k">>,
             <<"B", "B", "R", "I", ".", "J", "K">> }

\* values the data provider can deliver
FetchedCashFlows == {Num(R(-100)), Num(R(0)), Num(R(250))}
FetchedPrices == {None, Num(R(-10)), Num(R(0)), Num(R(10))}
FetchedMarketCaps == {None, Num(R(-5000)), Num(R(0)), Num(R(5000))}
FetchedExchangeRates == {Num(R(0)), Num(R(16000))}

\* numbers typed into the sidebar fields, in percent
GrowthPercents == {Num(R(0)), Num(R(100))}
DiscountPercents == {Num(R(-300)), Num(R(-250)), Num(R(-100)), Num(R(0)), Num(R(100))}
TerminalPercents == {Num(R(-450)), Num(R(-400)), Num(R(0)), Num(R(50))}

\* line 62: st.sidebar.slider("Projection Years", min_value=3, max_value=10)
SliderMin == 3
SliderMax == 10
\* line 48, 56: initial_cash_flow = 100.0
DefaultCashFlow == 100
\* lines 59-61: "/ 100"
Percent == 100

\* ------------------------------------------------------------------------
\* State
\* ------------------------------------------------------------------------
VARIABLES
    caller,              \* "direct": dcf_valuation called on its own; "script": a run of DCF.py
    pc,                  \* position in the script or in dcf_valuation
    ticker, is_indonesian_stock, exchange_rate,
    initial_cash_flow, stock_price, market_cap,
    growth_rate, discount_rate, terminal_growth, years,
    cash_flows,
    discount_factors, present_values, terminal_value, terminal_value_pv,
    total_value,         \* what dcf_valuation returned
    fair_value_per_share, total_value_usd,
    out                  \* the st.error / st.write calls made so far, in order

fetched == <<ticker, is_indonesian_stock, exchange_rate,
             initial_cash_flow, stock_price, market_cap>>
inputs == <<growth_rate, discount_rate, terminal_growth, years>>
locals == <<discount_factors, present_values, terminal_value, terminal_value_pv>>
derived == <<fair_value_per_share, total_value_usd>>

vars == <<caller, pc, fetched, inputs, cash_flows, locals, total_value, derived, out>>

Line(what, v) == [what |-> what, val |-> v]

Wrote(what) == \E i \in 1..Len(out) : out[i].what = what

NoLocals ==
    /\ discount_factors = <<>>
    /\ present_values = <<>>
    /\ terminal_value = Unset
    /\ terminal_value_pv = Unset

NoScript ==
    /\ ticker = <<>>
    /\ is_indonesian_stock = FALSE
    /\ exchange_rate = Unset
    /\ initial_cash_flow = Unset
    /\ stock_price = Unset
    /\ market_cap = Unset
    /\ growth_rate = Unset

\* dcf_valuation called directly with arguments from the bounded sets
InitCall ==
    /\ caller = "direct"
    /\ pc = "call"
    /\ \/ /\ cash_flows \in CashFlowSeqs
          /\ discount_rate \in Rates
          /\ terminal_growth \in Rates
          /\ years \in 1..MaxYears
       \/ /\ cash_flows = ExampleCashFlows
          /\ discount_rate = ExampleDiscountRate
          /\ terminal_growth = ExampleTerminalGrowth
          /\ years = ExampleYears
    /\ NoScript
    /\ NoLocals
    /\ total_value = Unset
    /\ fair_value_per_share = Unset
    /\ total_value_usd = Unset
    /\ out = <<>>

\* a run of the script, before its first statement
InitScript ==
    /\ caller = "script"
    /\ pc = "ticker"
    /\ NoScript
    /\ discount_rate = Unset
    /\ terminal_growth = Unset
    /\ years = 0
    /\ cash_flows = <<>>
    /\ NoLocals
    /\ total_value = Unset
    /\ fair_value_per_share = Unset
    /\ total_value_usd = Unset
    /\ out = <<>>

\* ------------------------------------------------------------------------
\* dcf_valuation, as steps
\* ------------------------------------------------------------------------
\* lines 7-9
CheckRates ==
    /\ pc = "call"
    /\ IF RejectsRates(discount_rate, terminal_growth)
       THEN /\ out' = Append(out, Line("error_rates", None))
            /\ total_value' = None
            /\ pc' = "returned"
       ELSE /\ pc' = "line11"
            /\ UNCHANGED <<out, total_value>>
    /\ UNCHANGED <<caller, fetched, inputs, cash_flows, locals, derived>>

\* line 11
ComputeDiscountFactors ==
    /\ pc = "line11"
    /\ IF FactorsRaise(discount_rate, years)
       THEN /\ pc' = "raised"
            /\ UNCHANGED discount_factors
       ELSE /\ discount_factors' = DiscountFactors(discount_rate, years)
            /\ pc' = "line12"
    /\ UNCHANGED <<caller, fetched, inputs, cash_flows, present_values,
                   terminal_value, terminal_value_pv, total_value, derived, out>>

\* line 12
ComputePresentValues ==
    /\ pc = "line12"
    /\ present_values' = PresentValues(cash_flows, discount_factors)
    /\ pc' = "line13"
    /\ UNCHANGED <<caller, fetched, inputs, cash_flows, discount_factors,
                   terminal_value, terminal_value_pv, total_value, derived, out>>

\* line 13
ComputeTerminalValue ==
    /\ pc = "line13"
    /\ IF TerminalRaises(discount_rate, terminal_growth)
       THEN /\ pc' = "raised"
            /\ UNCHANGED terminal_value
       ELSE /\ terminal_value' =
                  TerminalValue(cash_flows, discount_rate, terminal_growth)
            /\ pc' = "line14"
    /\ UNCHANGED <<caller, fetched, inputs, cash_flows, discount_factors,
                   present_values, terminal_value_pv, total_value, derived, out>>

\* line 14
DiscountTerminalValue ==
    /\ pc = "line14"
    /\ terminal_value_pv' = TerminalValuePV(terminal_value, discount_factors)
    /\ pc' = "line16"
    /\ UNCHANGED <<caller, fetched, inputs, cash_flows, discount_factors,
                   present_values, terminal_value, total_value, derived, out>>

\* lines 16-17
ReturnTotal ==
    /\ pc = "line16"
    /\ total_value' = TotalValue(present_values, terminal_value_pv)
    /\ pc' = "returned"
    /\ UNCHANGED <<caller, fetched, inputs, cash_flows, locals, derived, out>>

Valuation ==
    \/ CheckRates
    \/ ComputeDiscountFactors
    \/ ComputePresentValues
    \/ ComputeTerminalValue
    \/ DiscountTerminalValue
    \/ ReturnTotal

Spec == InitCall /\ [][Valuation]_vars

\* ------------------------------------------------------------------------
\* The script around it
\* ------------------------------------------------------------------------
\* lines 24-28: the ticker field, upper-cased; the currency follows its suffix
ReadTicker ==
    /\ pc = "ticker"
    /\ caller = "script"
    /\ \E t \in Tickers :
          /\ ticker' = Upper(t)
          /\ is_indonesian_stock' = EndsWith(Upper(t), DotJK)
    /\ pc' = "exchange_rate"
    /\ UNCHANGED <<caller, exchange_rate, initial_cash_flow, stock_price, market_cap,
                   inputs, cash_flows, locals, total_value, derived, out>>

\* lines 31-37: the exchange rate; any failure of the fetch leaves None
FetchExchangeRate ==
    /\ pc = "exchange_rate"
    /\ IF is_indonesian_stock
       THEN exchange_rate' \in FetchedExchangeRates \cup {None}
       ELSE exchange_rate' = Num(R(1))
    /\ pc' = "data"
    /\ UNCHANGED <<caller, ticker, is_indonesian_stock, initial_cash_flow, stock_price,
                   market_cap, inputs, cash_flows, locals, total_value, derived, out>>

\* lines 40-57: cash flow, price and market cap; on any exception the error is
\* shown and the defaults are used
FetchData ==
    /\ pc = "data"
    /\ \/ /\ initial_cash_flow' \in FetchedCashFlows \cup {Num(R(DefaultCashFlow))}
          /\ stock_price' \in FetchedPrices
          /\ market_cap' \in FetchedMarketCaps
          /\ UNCHANGED out
       \/ /\ out' = Append(out, Line("error_fetch", None))
          /\ initial_cash_flow' = Num(R(DefaultCashFlow))
          /\ stock_price' = None
          /\ market_cap' = None
    /\ pc' = "inputs"
    /\ UNCHANGED <<caller, ticker, is_indonesian_stock, exchange_rate, inputs,
                   cash_flows, locals, total_value, derived>>

\* lines 59-62: the three percentages, each divided by 100, and the slider
ReadInputs ==
    /\ pc = "inputs"
    /\ \E gp \in GrowthPercents, dp \in DiscountPercents, tp \in TerminalPercents :
          /\ growth_rate' = FDiv(gp, Num(R(Percent)))
          /\ discount_rate' = FDiv(dp, Num(R(Percent)))
          /\ terminal_growth' = FDiv(tp, Num(R(Percent)))
    /\ years' \in SliderMin..Min(SliderMax, MaxSliderYears)
    /\ pc' = "project"
    /\ UNCHANGED <<caller, fetched, cash_flows, locals, total_value, derived, out>>

\* line 65: [initial_cash_flow * (1 + growth_rate) ** i for i in range(1, years + 1)]
ProjectedCashFlows(initial, growth, n) ==
    [i \in 1..n |-> FMul(initial, FPow(FAdd(Num(R(1)), growth), i))]

\* lines 65-66: project the cash flows and call dcf_valuation on them
ProjectAndCall ==
    /\ pc = "project"
    /\ cash_flows' = ProjectedCashFlows(initial_cash_flow, growth_rate, years)
    /\ pc' = "call"
    /\ UNCHANGED <<caller, fetched, inputs, locals, total_value, derived, out>>

\* line 78
HasMarketData(mc, sp) == mc # None /\ sp # None

\* line 91
MarketDataPositive(mc, sp) == FLt(Num(R(0)), mc) /\ FLt(Num(R(0)), sp)

\* the ratio inverted: total_value / (stock_price / market_cap)
FairValuePerShareInverted(total, mc, sp) == FDiv(total, FDiv(sp, mc))

\* line 92: total_value / (market_cap / stock_price)
FairValuePerShare(total, mc, sp) == FDiv(total, FDiv(mc, sp))

\* line 98: total_value / exchange_rate
TotalValueUSD(total, rate) == FDiv(total, rate)

\* lines 78-99: what is written once market cap and price are there;
\* `converts` is the outcome of "is_indonesian_stock and exchange_rate"
MarketLines(total, mc, sp, converts, rate) ==
    <<Line("market_cap", mc), Line("stock_price", sp)>>
    \o (IF MarketDataPositive(mc, sp)
        THEN <<Line("fair_value_per_share", FairValuePerShare(total, mc, sp))>>
        ELSE <<>>)
    \o (IF converts
        THEN <<Line("intrinsic_value_usd", TotalValueUSD(total, rate))>>
        ELSE <<>>)

\* lines 68-99: the results block; `entered` is the outcome of "if total_value:"
ResultLines(total, mc, sp, entered, converts, rate) ==
    <<Line("subheader_results", None)>>
    \o (IF entered
        THEN <<Line("intrinsic_value", total)>>
             \o (IF HasMarketData(mc, sp)
                 THEN MarketLines(total, mc, sp, converts, rate)
                 ELSE <<>>)
        ELSE <<>>)

ShowResults ==
    /\ pc = "returned"
    /\ caller = "script"
    /\ \E entered \in TruthValues(total_value) :
       \E converts \in {is_indonesian_stock /\ t : t \in TruthValues(exchange_rate)} :
          /\ out' = out \o ResultLines(total_value, market_cap, stock_price,
                                       entered, converts, exchange_rate)
          /\ fair_value_per_share' =
                IF entered /\ HasMarketData(market_cap, stock_price)
                   /\ MarketDataPositive(market_cap, stock_price)
                THEN FairValuePerShare(total_value, market_cap, stock_price)
                ELSE Unset
          /\ total_value_usd' =
                IF entered /\ HasMarketData(market_cap, stock_price) /\ converts
                THEN TotalValueUSD(total_value, exchange_rate)
                ELSE Unset
    /\ pc' = "chart"
    /\ UNCHANGED <<caller, fetched, inputs, cash_flows, locals, total_value>>

\* lines 101-106: the chart of the projected cash flows and the formula line
DrawChart ==
    /\ pc = "chart"
    /\ out' = out \o <<Line("subheader_chart", None), Line("line_chart", None),
                       Line("formula", None)>>
    /\ pc' = "done"
    /\ UNCHANGED <<caller, fetched, inputs, cash_flows, locals, total_value, derived>>

Script ==
    \/ ReadTicker
    \/ FetchExchangeRate
    \/ FetchData
    \/ ReadInputs
    \/ ProjectAndCall
    \/ Valuation
    \/ ShowResults
    \/ DrawChart

ScriptSpec == InitScript /\ [][Script]_vars

\* ------------------------------------------------------------------------
\* Vocabulary of the properties
\* ------------------------------------------------------------------------
\* the rationals of a list of floats
Values(s) == [i \in 1..Len(s) |-> s[i].val]

\* A float whose rational is not zero has that rational's sign, and two
\* floats whose rationals differ are ordered as the rationals are.
Positive(v) == RLt(R(0), v.val)
Less(x, y) == RLt(x.val, y.val)

\* What rounding leaves open: a rounded value whose rational is zero may be
\* a tiny positive double, and two floats with the same rational, one of
\* them rounded, may differ in the last place.
MayBePositive(v) == Positive(v) \/ (IsZero(v.val) /\ ~v.exact)
MayBeLess(x, y) == Less(x, y) \/ (x.val = y.val /\ ~(x.exact /\ y.exact))

DefinitelyTruthy(v) == TruthValues(v) = {TRUE}
MayBeTruthy(v) == TRUE \in TruthValues(v)

AllPositive(cfs) == \A i \in 1..Len(cfs) : Positive(cfs[i])

Finished == pc \in {"returned", "raised"}

\* sum_{i=1..n} cf[i] * (1+r)^(-i) + cf[n] * (1+g) / (r-g) * (1+r)^(-n), for
\* r # -1, over the rationals
ClosedForm(cfs, r, g, n) ==
    RAdd(RSum([i \in 1..n |-> RMul(cfs[i], RDiv(R(1), RPow(RAdd(R(1), r), i)))]),
         RMul(RDiv(RMul(cfs[n], RAdd(R(1), g)), RSub(r, g)),
              RDiv(R(1), RPow(RAdd(R(1), r), n))))

\* x is t tenths when rounded to one decimal place: t/10 - 1/20 <= x < t/10 + 1/20
ApproxTenths(x, t) ==
    /\ RLe(Norm(2 * t - 1, 20), x)
    /\ RLt(x, Norm(2 * t + 1, 20))

IsExample ==
    /\ cash_flows = ExampleCashFlows
    /\ discount_rate = ExampleDiscountRate
    /\ terminal_growth = ExampleTerminalGrowth
    /\ years = ExampleYears

DependentLines == {"intrinsic_value", "fair_value_per_share", "intrinsic_value_usd"}

LineValue(what) == (CHOOSE i \in 1..Len(out) : out[i].what = what)

\* ------------------------------------------------------------------------
\* C1: with exactly `years` cash flows and discount_rate > terminal_growth,
\* dcf_valuation returns the closed form: the sum of the cash flows
\* discounted by (1+r)^(-i) plus the Gordon-growth terminal value discounted
\* by (1+r)^(-years).  (A returned float that differs from the closed form
\* by the rounding of lines 11-16 alone is let through: every violation is
\* a call that returns no number or a number standing for another value.)
\* ------------------------------------------------------------------------
C1_ReturnsClosedForm ==
    (/\ Finished
     /\ Len(cash_flows) = years
     /\ Less(terminal_growth, discount_rate))
    => /\ pc = "returned"
       /\ IsNum(total_value)
       /\ total_value.val =
             ClosedForm(Values(cash_flows), discount_rate.val,
                        terminal_growth.val, years)

\* C1, where it does hold: for every discount rate other than -100% the
\* call returns, and the returned float stands for the closed form (it is
\* the closed form whenever no step rounds); at -100% the call raises.
C1_ClosedFormAwayFromMinusOne ==
    (/\ Finished
     /\ Len(cash_flows) = years
     /\ Less(terminal_growth, discount_rate))
    => IF IsZero(RAdd(R(1), discount_rate.val))
       THEN pc = "raised"
       ELSE /\ pc = "returned"
            /\ IsNum(total_value)
            /\ total_value.val =
                  ClosedForm(Values(cash_flows), discount_rate.val,
                             terminal_growth.val, years)

\* ------------------------------------------------------------------------
\* C2: whenever discount_rate <= terminal_growth (equality included) the call
\* returns None, having shown the error and evaluated neither the discount
\* factors nor the terminal-value division.
\* ------------------------------------------------------------------------
C2_RejectedRatesReturnNone ==
    (pc # "call" /\ ~Less(terminal_growth, discount_rate))
    => /\ pc = "returned"
       /\ total_value = None
       /\ NoLocals
       /\ Wrote("error_rates")

C2_Witness ==
    /\ pc = "returned"
    /\ discount_rate = terminal_growth
    /\ total_value = None

\* ------------------------------------------------------------------------
\* C3: a computed total that is zero or negative never reaches the caller:
\* the valuation signals invalid and no intrinsic value is displayed.  (A
\* rounded total standing for zero may be a positive double; it is let
\* through here.)
\* ------------------------------------------------------------------------
C3_NonPositiveTotalIsInvalid ==
    (pc \in {"returned", "chart", "done"} /\ IsNum(total_value))
    => MayBePositive(total_value)

\* ------------------------------------------------------------------------
\* C4: with discount_rate > terminal_growth and all cash flows strictly
\* positive, the call does not raise and returns a strictly positive number.
\* ------------------------------------------------------------------------
C4_PositiveInputsGivePositiveValue ==
    (/\ Finished
     /\ AllPositive(cash_flows)
     /\ Less(terminal_growth, discount_rate))
    => /\ pc = "returned"
       /\ IsNum(total_value)
       /\ MayBePositive(total_value)

\* C4, where it does hold: with both rates above -100% (discount_rate > -1,
\* terminal_growth >= -1) positive cash flows give a positive value.
C4_PositiveAboveMinusOne ==
    (/\ Finished
     /\ AllPositive(cash_flows)
     /\ Less(terminal_growth, discount_rate)
     /\ RLe(R(-1), terminal_growth.val))
    => /\ pc = "returned"
       /\ IsNum(total_value)
       /\ Positive(total_value)

\* ------------------------------------------------------------------------
\* C5: with more than `years` cash flows, the result is that of the first
\* `years` entries alone.
\* ------------------------------------------------------------------------
C5_OnlyFirstYearsEntriesUsed ==
    (pc = "returned" /\ Len(cash_flows) > years)
    => LET alone == dcf_valuation(SubSeq(cash_flows, 1, years), discount_rate,
                                  terminal_growth, years)
       IN  /\ total_value.kind = alone.kind
           /\ total_value.val = alone.val

\* ------------------------------------------------------------------------
\* C6: the fair value per share is written exactly when market cap and stock
\* price are both present and strictly positive (and there is a total to
\* divide: the results block was entered, which a truthy total does and a
\* falsy one does not), and it is then total / (market_cap / stock_price);
\* 1000, 5000 and 10 give 2.
\* ------------------------------------------------------------------------
C6_FairValuePerShare ==
    (pc \in {"chart", "done"})
    => /\ Wrote("fair_value_per_share")
            <=> /\ Wrote("intrinsic_value")
                /\ IsNum(market_cap) /\ Positive(market_cap)
                /\ IsNum(stock_price) /\ Positive(stock_price)
       /\ Wrote("intrinsic_value") => MayBeTruthy(total_value)
       /\ DefinitelyTruthy(total_value) => Wrote("intrinsic_value")
       /\ Wrote("fair_value_per_share")
            => /\ out[LineValue("fair_value_per_share")].val = fair_value_per_share
               /\ fair_value_per_share =
                     FDiv(total_value, FDiv(market_cap, stock_price))
               /\ RMul(fair_value_per_share.val, market_cap.val)
                     = RMul(total_value.val, stock_price.val)
       /\ ~Wrote("fair_value_per_share") => fair_value_per_share = Unset
       /\ FairValuePerShare(Num(R(1000)), Num(R(5000)), Num(R(10))) = Num(R(2))

C6_Witness ==
    /\ pc = "done"
    /\ Wrote("fair_value_per_share")
    /\ market_cap = Num(R(5000))
    /\ stock_price = Num(R(10))

\* ------------------------------------------------------------------------
\* C7: the lines that depend on the valuation are written only for a valid
\* (positive) result, and a run without stock price or market cap never
\* raises: it completes, writes the intrinsic value of a valid result and
\* leaves the per-share figure out.
\* ------------------------------------------------------------------------
C7_DependentOutputsAndDegradation ==
    /\ (\E w \in DependentLines : Wrote(w))
          => IsNum(total_value) /\ MayBePositive(total_value)
    /\ (caller = "script" /\ (market_cap = None \/ stock_price = None))
          => /\ pc # "raised"
             /\ pc = "done" =>
                   /\ ~Wrote("fair_value_per_share")
                   /\ DefinitelyTruthy(total_value) => Wrote("intrinsic_value")

\* C7, the caller's part alone: the dependent lines are written only when
\* total_value is truthy, and a finished run without price or market cap
\* writes the intrinsic value of a truthy total and neither the per-share nor
\* the USD line.
C7_CallerGating ==
    /\ (\E w \in DependentLines : Wrote(w)) => MayBeTruthy(total_value)
    /\ (pc = "done" /\ (market_cap = None \/ stock_price = None))
          => /\ ~Wrote("fair_value_per_share")
             /\ ~Wrote("intrinsic_value_usd")
             /\ DefinitelyTruthy(total_value) => Wrote("intrinsic_value")
             /\ Wrote("intrinsic_value") => MayBeTruthy(total_value)

\* ------------------------------------------------------------------------
\* C8: for fixed cash flows, terminal growth and years, a larger discount
\* rate (both above the terminal growth) gives a strictly smaller result.
\* Stated here for the cash flows that are all strictly positive, where the
\* valuation formula itself is decreasing in the rate.  (Two results that
\* stand for the same value, one of them rounded, are let through.)
\* ------------------------------------------------------------------------
C8_DecreasingInDiscountRate ==
    (/\ Finished
     /\ AllPositive(cash_flows)
     /\ Less(terminal_growth, discount_rate))
    => /\ pc = "returned"
       /\ IsNum(total_value)
       /\ \A r2 \in Rates :
             Less(discount_rate, r2)
             => LET v2 == dcf_valuation(cash_flows, r2, terminal_growth, years)
                IN  IsNum(v2) /\ MayBeLess(v2, total_value)

\* C8 for every cash-flow sequence, negative entries included.
C8_DecreasingForAllCashFlows ==
    (/\ Finished
     /\ Less(terminal_growth, discount_rate))
    => /\ pc = "returned"
       /\ IsNum(total_value)
       /\ \A r2 \in Rates :
             Less(discount_rate, r2)
             => LET v2 == dcf_valuation(cash_flows, r2, terminal_growth, years)
                IN  IsNum(v2) /\ MayBeLess(v2, total_value)

\* C8, where it does hold: positive cash flows, one per year, and a
\* discount rate above -100%.
C8_DecreasingAboveMinusOne ==
    (/\ Finished
     /\ AllPositive(cash_flows)
     /\ Len(cash_flows) = years
     /\ Less(terminal_growth, discount_rate)
     /\ RLt(R(-1), discount_rate.val))
    => /\ pc = "returned"
       /\ IsNum(total_value)
       /\ \A r2 \in Rates :
             Less(discount_rate, r2)
             => LET v2 == dcf_valuation(cash_flows, r2, terminal_growth, years)
                IN  IsNum(v2) /\ Less(v2, total_value)

\* ------------------------------------------------------------------------
\* C9: for discount_rate > terminal_growth, raising any one of the first
\* `years` cash flows strictly raises the result.  (Two results that stand
\* for the same value, one of them rounded, are let through.)
\* ------------------------------------------------------------------------
C9_IncreasingInEachCashFlow ==
    (/\ Finished
     /\ Len(cash_flows) >= years
     /\ Less(terminal_growth, discount_rate))
    => /\ pc = "returned"
       /\ \A k \in 1..years : \A c \in CashFlowValues :
             Less(cash_flows[k], c)
             => LET v2 == dcf_valuation([cash_flows EXCEPT ![k] = c], discount_rate,
                                        terminal_growth, years)
                IN  IsNum(v2) /\ MayBeLess(total_value, v2)

\* C9, where it does hold: for a discount rate above -100%.
C9_IncreasingAboveMinusOne ==
    (/\ Finished
     /\ Len(cash_flows) >= years
     /\ Less(terminal_growth, discount_rate)
     /\ RLt(R(-1), discount_rate.val))
    => /\ pc = "returned"
       /\ \A k \in 1..years : \A c \in CashFlowValues :
             Less(cash_flows[k], c)
             => LET v2 == dcf_valuation([cash_flows EXCEPT ![k] = c], discount_rate,
                                        terminal_growth, years)
                IN  IsNum(v2) /\ Less(total_value, v2)

\* ------------------------------------------------------------------------
\* C10: the worked example (105, 110.25, 115.76, 121.55, 127.63 at 10% and
\* 2% over 5 years) gives a total of about 1584.7: 460.0 explicit plus
\* 1124.7 terminal.
\* ------------------------------------------------------------------------
C10_ExampleAsStated ==
    (pc = "returned" /\ IsExample)
    => /\ ApproxTenths(total_value.val, 15847)
       /\ ApproxTenths(FSum(present_values).val, 4600)
       /\ ApproxTenths(terminal_value_pv.val, 11247)

\* C10 as amended: the same example gives a total of about 1446.2: 435.8
\* explicit plus 1010.4 terminal.
C10_ExampleAsComputed ==
    (pc = "returned" /\ IsExample)
    => /\ IsNum(total_value)
       /\ ApproxTenths(total_value.val, 14462)
       /\ ApproxTenths(FSum(present_values).val, 4358)
       /\ ApproxTenths(terminal_value_pv.val, 10104)

C10_Witness ==
    /\ pc = "returned"
    /\ IsExample
    /\ IsNum(total_value)

====
